---- MODULE Spec2Model ----
(***************************************************************************)
(* Model of the mini-ai-assistant repository: the SQLite store             *)
(* (database.py), the conversation memory (memory.py), the JSON task       *)
(* registry (task_manager.py), the Gemini client (gemini_client.py) and    *)
(* the caller turn of the CLI and web front ends (main.py, web_ui.py).     *)
(***************************************************************************)
EXTENDS Integers, Sequences, FiniteSets, TLC

(* ---------------- bounds of the model ---------------- *)
\* number of append_message calls explored
MaxAppends == 11
\* number of one-second steps of CURRENT_TIMESTAMP explored
MaxClock == 1
\* length of the long legacy history.json file
MaxLegacy == 11

\* number of appends made by concurrent requests
MaxConcAppends == 2

\* number of add_task calls that return an identifier
MaxAdds == 2
\* number of rows db_add_task inserts
MaxDbAdds == 1
\* length of the task names tried
MaxNameLen == 1

\* number of toggle requests each connection makes
MaxToggles == 2

(* ---------------- program constants ---------------- *)
MAX_MESSAGES == 10
MIGRATE_LIMIT == 100

Roles == {"user", "model"}

\* history.json as an earlier version of the program may have left it: absent or
\* empty, a short file holding an entry without content, a file longer than the
\* retention bound
LegacyMessage(i) ==
    [role |-> IF i % 2 = 1 THEN "user" ELSE "model", content |-> "j" \o ToString(i)]

ShortLegacy == <<LegacyMessage(1), [role |-> "model", content |-> ""], LegacyMessage(3)>>

LongLegacy == [i \in 1..MaxLegacy |-> LegacyMessage(i)]

LegacyFiles == {<<>>, ShortLegacy, LongLegacy}

\* ORDER BY created_at leaves the order of rows with equal created_at to the
\* engine: an index scan of idx_history_created yields them by ascending rowid,
\* another plan may yield them by descending rowid.
TieOrders == {"rowid_asc", "rowid_desc"}

VARIABLES
    history,      \* committed rows of table conversation_history, by rowid
    hist_seq,     \* AUTOINCREMENT counter of conversation_history
    now,          \* CURRENT_TIMESTAMP, in seconds
    legacy_json,  \* messages in the legacy history.json file
    appended,     \* log of the messages appended since the store was last empty
    ret,          \* what the last operation returned to its caller
    conn,         \* per request: the step it is at, the rows of its connection's open
                  \* transaction, the id its INSERT got and the ids its DELETE removed
    observed,     \* the last concurrent reader's statement: the row ids it saw and
                  \* the appends whose transaction was open when it ran
    tasks_file,   \* the task list in storage.json (task_manager.py)
    issued,       \* the identifiers add_task has returned, in order
    db_tasks,     \* committed rows of table tasks (database.py)
    task_seq,     \* AUTOINCREMENT counter of table tasks
    client,       \* gemini_client._client is set (configure_api succeeded)
    contacts,     \* number of generate_content calls made to the hosted model
    turn,         \* the caller turn in progress: its step, its locals and the log
                  \* of what it did (run_cli, api_chat)
    req,          \* per concurrent task request: the step it is at and its locals
    gw,           \* a send_message call: its arguments, the reply of the hosted
                  \* model and what the call returned
    stats         \* a db_get_stats call: the step it is at, the counts it has read,
                  \* what it returned and the counts of every state the store was
                  \* in during the call

bufVars == <<history, hist_seq, now, legacy_json, appended, ret>>
concVars == <<conn, observed>>
taskVars == <<tasks_file, issued, db_tasks, task_seq>>
frontVars == <<client, contacts, turn, req, gw, stats>>
vars == <<bufVars, concVars, taskVars, frontVars>>

(* ---------------- sequences ---------------- *)
Min(a, b) == IF a < b THEN a ELSE b

Take(s, n) == SubSeq(s, 1, Min(n, Len(s)))

LastN(s, n) == SubSeq(s, Len(s) - Min(n, Len(s)) + 1, Len(s))

Reverse(s) == [i \in 1..Len(s) |-> s[Len(s) + 1 - i]]

\* web requests that append concurrently, each on its own connection
Writers == {"w1", "w2"}

Idle == [pc |-> "idle", rows |-> <<>>, new |-> 0, evicted |-> {}]

NotObserved == [ids |-> {}, open |-> {}]

\* no caller turn in progress. front: the front end of the turn; text: the caller
\* text; history: the local variable history; response: the Response send_message
\* returned; result: the string execute_function_call returned; follow_up: the
\* Response of the second send_message; final: the text the turn returns; stored: get_history() as the turn found it; sent: the content
\* turns of each send_message call; log: the steps taken
NoTurn == [pc |-> "idle", front |-> "none", text |-> <<>>, history |-> <<>>,
           response |-> <<>>, result |-> <<>>, follow_up |-> <<>>, final |-> <<>>,
           stored |-> <<>>, sent |-> <<>>, log |-> <<>>]

\* no send_message call
NoCall == [pc |-> "none", message |-> <<>>, history |-> <<>>, reply |-> <<>>,
           out |-> <<>>]

\* no db_get_stats call. total, completed: the counts read so far; out: the
\* dictionary returned (<<>> before the return); seen: the counts of the states the
\* store was in since the call's first SELECT
NoStats == [pc |-> "idle", total |-> 0, completed |-> 0, out |-> <<>>, seen |-> {}]

\* a task request that has not started. tasks: what load_tasks returned; task: the
\* task it built or read; out: what it returned (<<>> for None)
\* n: the toggles it has made
NoRequest == [pc |-> "idle", tasks |-> <<>>, task |-> <<>>, out |-> <<>>, n |-> 0]

(* ---------------- return values ---------------- *)
\* op: the operation; name, id: its arguments; ok, task, list, n: what it returned
\* (task is <<>> for None); found: the task as the operation found it; saved:
\* whether its write to storage.json succeeded
NoRet == [op |-> "none", name |-> <<>>, id |-> 0, ok |-> FALSE, task |-> <<>>,
          list |-> <<>>, n |-> 0, found |-> <<>>, saved |-> TRUE]

(* ---------------- table conversation_history ---------------- *)
\* r comes before s in ORDER BY created_at DESC, ties left to the engine
BeforeDesc(r, s, tie) ==
    \/ r.created_at > s.created_at
    \/ /\ r.created_at = s.created_at
       /\ IF tie = "rowid_asc" THEN r.id < s.id ELSE r.id > s.id

OrderByCreatedDesc(rows, tie) == SortSeq(rows, LAMBDA r, s : BeforeDesc(r, s, tie))

RowIds(rows) == {rows[i].id : i \in 1..Len(rows)}

\* INSERT INTO conversation_history (role, content) VALUES (?, ?)
InsertMessage(rows, seq, role, content, ts) ==
    Append(rows, [id |-> seq + 1, role |-> role, content |-> content, created_at |-> ts])

\* DELETE ... WHERE id NOT IN (SELECT id ... ORDER BY created_at DESC LIMIT ?)
EvictBeyond(rows, limit, tie) ==
    LET kept == Take(OrderByCreatedDesc(rows, tie), limit)
        keptIds == {kept[i].id : i \in 1..Len(kept)}
    IN  SelectSeq(rows, LAMBDA r : r.id \in keptIds)

\* SELECT role, content ... ORDER BY created_at DESC LIMIT ?, then reversed
db_get_history(rows, limit, tie) ==
    LET recent == Take(OrderByCreatedDesc(rows, tie), limit)
    IN  Reverse([i \in 1..Len(recent) |->
                    [role |-> recent[i].role, content |-> recent[i].content]])

Init ==
    /\ history = <<>>
    /\ hist_seq = 0
    /\ now = 0
    /\ legacy_json \in LegacyFiles
    /\ appended = <<>>
    /\ ret = NoRet
    /\ conn = [w \in Writers |-> Idle]
    /\ observed = NotObserved
    /\ tasks_file = <<>>
    /\ issued = <<>>
    /\ db_tasks = {}
    /\ task_seq = 0
    /\ client = FALSE
    /\ contacts = 0
    /\ turn = NoTurn
    /\ req = [w \in Writers |-> NoRequest]
    /\ gw = NoCall
    /\ stats = NoStats

\* one second passes
Tick ==
    /\ now < MaxClock
    /\ now' = now + 1
    /\ UNCHANGED <<history, hist_seq, legacy_json, appended, ret, concVars, taskVars, frontVars>>

\* db_append_message(role, content, limit): INSERT and DELETE in one transaction,
\* commit, then the rows db_get_history(limit) reads
db_append_message(rows, seq, role, content, limit, ts, tie) ==
    EvictBeyond(InsertMessage(rows, seq, role, content, ts), limit, tie)

\* the caller of a turn: the CLI loop appends the caller text as "user", then the
\* reply as "model" (main.py run_cli)
CallerRoles ==
    IF appended # <<>> /\ appended[Len(appended)].role = "user"
    THEN {"model"} ELSE {"user"}

\* memory.append_message(role, content)
AppendMessage ==
    /\ hist_seq < MaxAppends
    /\ \E role \in CallerRoles, tie1 \in TieOrders, tie2 \in TieOrders :
         LET content == "m" \o ToString(hist_seq + 1)
             kept == db_append_message(history, hist_seq, role, content,
                                       MAX_MESSAGES, now, tie1)
         IN  /\ history' = kept
             /\ hist_seq' = hist_seq + 1
             /\ appended' = Append(appended, [role |-> role, content |-> content])
             /\ ret' = [NoRet EXCEPT !.op = "append_message",
                                     !.list = db_get_history(kept, MAX_MESSAGES, tie2)]
    /\ UNCHANGED <<now, legacy_json, concVars, taskVars, frontVars>>

\* memory.get_history()
GetHistory ==
    /\ \E tie \in TieOrders :
         ret' = [NoRet EXCEPT !.op = "get_history",
                              !.list = db_get_history(history, MAX_MESSAGES, tie)]
    /\ UNCHANGED <<history, hist_seq, now, legacy_json, appended, concVars, taskVars, frontVars>>

\* memory.clear_history() -> db_clear_history()
ClearHistory ==
    /\ history' = <<>>
    /\ appended' = <<>>
    /\ ret' = [NoRet EXCEPT !.op = "clear_history", !.ok = TRUE]
    /\ UNCHANGED <<hist_seq, now, legacy_json, concVars, taskVars, frontVars>>

\* the entries of history.json that _migrate_from_json imports (role and content
\* both non-empty)
RECURSIVE Importable(_)
Importable(file) ==
    IF file = <<>> THEN <<>>
    ELSE (IF Head(file).role # "" /\ Head(file).content # ""
          THEN <<Head(file)>> ELSE <<>>) \o Importable(Tail(file))

\* the loop of _migrate_from_json: one db_append_message(role, content, limit=100)
\* per importable entry
RECURSIVE MigrateRows(_, _, _, _, _)
MigrateRows(rows, seq, msgs, ts, tie) ==
    IF msgs = <<>> THEN rows
    ELSE MigrateRows(db_append_message(rows, seq, Head(msgs).role, Head(msgs).content,
                                       MIGRATE_LIMIT, ts, tie),
                     seq + 1, Tail(msgs), ts, tie)

\* memory._migrate_from_json(), run when a process loads the memory module
MigrateFromJson ==
    /\ legacy_json # <<>>
    /\ \E tie \in TieOrders :
         LET msgs == Importable(legacy_json)
         IN  /\ history' = MigrateRows(history, hist_seq, msgs, now, tie)
             /\ hist_seq' = hist_seq + Len(msgs)
             /\ appended' = appended \o msgs
    /\ legacy_json' = <<>>
    /\ ret' = [NoRet EXCEPT !.op = "migrate"]
    /\ UNCHANGED <<now, concVars, taskVars, frontVars>>

\* database.db_get_stats(): conversation_messages
GetStats ==
    /\ ret' = [NoRet EXCEPT !.op = "get_stats", !.n = Len(history)]
    /\ UNCHANGED <<history, hist_seq, now, legacy_json, appended, concVars, taskVars, frontVars>>

Next ==
    \/ Tick
    \/ AppendMessage
    \/ GetHistory
    \/ ClearHistory
    \/ MigrateFromJson
    \/ GetStats

Spec == Init /\ [][Next]_vars

\* C1: get_history returns exactly the min(N, MAX_MESSAGES) most recently appended
\* messages, in the order they were appended.
C1_HistoryIsMostRecentInOrder ==
    ret.op = "get_history" => ret.list = LastN(appended, MAX_MESSAGES)

\* C2: the store never holds more than MAX_MESSAGES conversation messages, whatever
\* operations (append_message, clear_history, the legacy import) produced the state.
C2_StoreWithinBound == Len(history) <= MAX_MESSAGES

(* ---------------- concurrent requests on the store ---------------- *)
\* The sqlite3 module opens a transaction before the first INSERT/DELETE of a
\* connection and conn.commit() ends it; other connections read the committed
\* rows, and a second connection cannot write while a transaction is open (its
\* statement waits on the lock).
NoOpenTransaction == \A w \in Writers : conn[w].pc \in {"idle", "committed"}

\* requests append the caller text and the reply in turn
WriterRole(w) == IF hist_seq % 2 = 0 THEN "user" ELSE "model"

\* the store after earlier turns appended MAX_MESSAGES - 1 messages within one
\* second (a state of Spec), the requests about to start
PriorCount == MAX_MESSAGES - 1

PriorMessage(i) ==
    [role |-> IF i % 2 = 1 THEN "user" ELSE "model", content |-> "m" \o ToString(i)]

PriorRows ==
    [i \in 1..PriorCount |->
        [id |-> i, role |-> PriorMessage(i).role, content |-> PriorMessage(i).content,
         created_at |-> 0]]

OpenAppends == {conn[w].new : w \in {v \in Writers : conn[v].pc \in {"inserted", "deleted"}}}

InitConc ==
    /\ history = PriorRows
    /\ hist_seq = PriorCount
    /\ now = 0
    /\ legacy_json = <<>>
    /\ appended = [i \in 1..PriorCount |-> PriorMessage(i)]
    /\ ret = NoRet
    /\ conn = [w \in Writers |-> Idle]
    /\ observed = NotObserved
    /\ tasks_file = <<>>
    /\ issued = <<>>
    /\ db_tasks = {}
    /\ task_seq = 0
    /\ client = FALSE
    /\ contacts = 0
    /\ turn = NoTurn
    /\ req = [w \in Writers |-> NoRequest]
    /\ gw = NoCall
    /\ stats = NoStats

\* db_append_message, conn.execute("INSERT ..."): opens the transaction
InsertStepAutocommit(w) ==
    /\ conn[w].pc = "idle"
    /\ NoOpenTransaction
    /\ hist_seq < PriorCount + MaxConcAppends
    /\ LET rows == InsertMessage(history, hist_seq, WriterRole(w),
                                 "m" \o ToString(hist_seq + 1), now)
       IN  /\ conn' = [conn EXCEPT ![w] = [pc |-> "inserted", rows |-> rows,
                                           new |-> hist_seq + 1, evicted |-> {}]]
           /\ history' = rows
    /\ UNCHANGED <<hist_seq, now, legacy_json, appended, ret, observed, taskVars, frontVars>>

InsertStep(w) ==
    /\ conn[w].pc = "idle"
    /\ NoOpenTransaction
    /\ hist_seq < PriorCount + MaxConcAppends
    /\ conn' = [conn EXCEPT ![w] =
                   [pc |-> "inserted",
                    rows |-> InsertMessage(history, hist_seq, WriterRole(w),
                                           "m" \o ToString(hist_seq + 1), now),
                    new |-> hist_seq + 1, evicted |-> {}]]
    /\ UNCHANGED <<bufVars, observed, taskVars, frontVars>>

\* db_append_message, conn.execute("DELETE ..."): inside the same transaction
DeleteStep(w) ==
    /\ conn[w].pc = "inserted"
    /\ \E tie \in TieOrders :
         LET kept == EvictBeyond(conn[w].rows, MAX_MESSAGES, tie)
         IN  conn' = [conn EXCEPT ![w].pc = "deleted", ![w].rows = kept,
                                  ![w].evicted = RowIds(conn[w].rows) \ RowIds(kept)]
    /\ UNCHANGED <<bufVars, observed, taskVars, frontVars>>

\* db_append_message, conn.commit(): the transaction's rows become the committed rows
CommitStep(w) ==
    /\ conn[w].pc = "deleted"
    /\ history' = conn[w].rows
    /\ hist_seq' = conn[w].new
    /\ appended' = Append(appended, [role |-> WriterRole(w),
                                     content |-> "m" \o ToString(hist_seq + 1)])
    /\ conn' = [conn EXCEPT ![w].pc = "committed", ![w].rows = <<>>]
    /\ UNCHANGED <<now, legacy_json, ret, observed, taskVars, frontVars>>

\* db_append_message, return db_get_history(limit): read on a new connection
ReturnStep(w) ==
    /\ conn[w].pc = "committed"
    /\ \E tie \in TieOrders :
         ret' = [NoRet EXCEPT !.op = "append_message", !.id = conn[w].new,
                              !.list = db_get_history(history, MAX_MESSAGES, tie)]
    /\ conn' = [conn EXCEPT ![w].pc = "idle"]
    /\ UNCHANGED <<history, hist_seq, now, legacy_json, appended, observed, taskVars, frontVars>>

\* a concurrent GET /api/history: db_get_history(10) on its own connection
ReadHistory ==
    /\ \E tie \in TieOrders :
         LET recent == Take(OrderByCreatedDesc(history, tie), MAX_MESSAGES)
         IN  observed' = [ids |-> {recent[i].id : i \in 1..Len(recent)},
                          open |-> OpenAppends]
    /\ UNCHANGED <<bufVars, conn, taskVars, frontVars>>

\* a concurrent GET /api/stats: db_get_stats() counts the committed rows
ReadStats ==
    /\ observed' = [ids |-> RowIds(history), open |-> OpenAppends]
    /\ UNCHANGED <<bufVars, conn, taskVars, frontVars>>

TickConc ==
    /\ now < MaxClock
    /\ now' = now + 1
    /\ UNCHANGED <<history, hist_seq, legacy_json, appended, ret, concVars, taskVars, frontVars>>

NextConc ==
    \/ \E w \in Writers : InsertStep(w)
    \/ \E w \in Writers : DeleteStep(w)
    \/ \E w \in Writers : CommitStep(w)
    \/ \E w \in Writers : ReturnStep(w)
    \/ ReadHistory
    \/ ReadStats
    \/ TickConc

SpecConc == InitConc /\ [][NextConc]_vars

\* C3: no concurrent reader sees the message an append inserted together with a
\* message that append evicts, nor more than MAX_MESSAGES messages.
C3_InsertAndEvictionAtomic ==
    /\ \A w \in Writers :
         ~(conn[w].new \in observed.ids /\ conn[w].evicted \cap observed.ids # {})
    /\ Cardinality(observed.ids) <= MAX_MESSAGES

\* a reader ran while the transaction of an append was open, and saw a row that
\* this append evicts
C3_ReaderDuringEvictingAppend ==
    \E w \in Writers :
        conn[w].new \in observed.open /\ conn[w].evicted \cap observed.ids # {}

(* ---------------- task names ---------------- *)
Chars == {" ", "a"}

Names == UNION {[1..n -> Chars] : n \in 0..MaxNameLen}

RECURSIVE LStrip(_)
LStrip(s) == IF s # <<>> /\ Head(s) = " " THEN LStrip(Tail(s)) ELSE s

RECURSIVE RStrip(_)
RStrip(s) == IF s # <<>> /\ s[Len(s)] = " " THEN RStrip(SubSeq(s, 1, Len(s) - 1)) ELSE s

\* str.strip()
Strip(s) == RStrip(LStrip(s))

\* not task_name or not task_name.strip()
NameIsEmptyUnstripped(name) == name = <<>>

NameIsEmpty(name) == name = <<>> \/ Strip(name) = <<>>

\* task ids callers ask for: the ids in use and one that never exists
TaskIds == 1..(MaxAdds + 1)

Null == -1

(* ---------------- Task Registry: task_manager.py on storage.json ---------------- *)
SeqMax(ids) == CHOOSE m \in ids : \A k \in ids : k <= m

\* _get_next_id(tasks)
get_next_id(tasks) ==
    IF tasks = <<>> THEN 1
    ELSE SeqMax({tasks[i].id : i \in 1..Len(tasks)}) + 1

\* save_tasks(tasks): the content of storage.json afterwards; written is FALSE
\* when the write raises IOError, which save_tasks turns into a False result
save_tasks(tasks, written) == IF written THEN tasks ELSE tasks_file

\* the index of the first task with this id, 0 if there is none
FirstWithId(tasks, id) ==
    IF \E i \in 1..Len(tasks) : tasks[i].id = id
    THEN CHOOSE i \in 1..Len(tasks) :
             /\ tasks[i].id = id
             /\ \A j \in 1..(i - 1) : tasks[j].id # id
    ELSE 0

FoundTask(tasks, id) ==
    IF FirstWithId(tasks, id) = 0 THEN <<>> ELSE <<tasks[FirstWithId(tasks, id)]>>

\* the list comprehension of delete_task
BelowId(tasks, id) == SelectSeq(tasks, LAMBDA t : t.id < id)

WithoutId(tasks, id) == SelectSeq(tasks, LAMBDA t : t.id # id)

InitTasks ==
    /\ history = <<>>
    /\ hist_seq = 0
    /\ now = 0
    /\ legacy_json = <<>>
    /\ appended = <<>>
    /\ ret = NoRet
    /\ conn = [w \in Writers |-> Idle]
    /\ observed = NotObserved
    /\ tasks_file = <<>>
    /\ issued = <<>>
    /\ db_tasks = {}
    /\ task_seq = 0
    /\ client = FALSE
    /\ contacts = 0
    /\ turn = NoTurn
    /\ req = [w \in Writers |-> NoRequest]
    /\ gw = NoCall
    /\ stats = NoStats

\* task_manager.add_task(task_name)
AddTask ==
    /\ Len(issued) < MaxAdds
    /\ \E name \in Names, written \in BOOLEAN :
         IF NameIsEmpty(name)
         THEN /\ ret' = [NoRet EXCEPT !.op = "add_task", !.name = name]
              /\ UNCHANGED <<tasks_file, issued>>
         ELSE LET tasks == tasks_file
                  new_task == [id |-> get_next_id(tasks), name |-> Strip(name),
                               completed |-> FALSE]
              IN  /\ tasks_file' = save_tasks(Append(tasks, new_task), written)
                  /\ issued' = IF written THEN Append(issued, new_task.id) ELSE issued
                  /\ ret' = [NoRet EXCEPT !.op = "add_task", !.name = name,
                                          !.id = new_task.id,
                                          !.task = IF written THEN <<new_task>> ELSE <<>>,
                                          !.saved = written]
    /\ UNCHANGED <<history, hist_seq, now, legacy_json, appended, concVars,
                   db_tasks, task_seq, frontVars>>

\* task_manager.list_tasks()
ListTasks ==
    /\ ret' = [NoRet EXCEPT !.op = "list_tasks", !.list = tasks_file]
    /\ UNCHANGED <<history, hist_seq, now, legacy_json, appended, concVars, taskVars, frontVars>>

\* the task list after the loop of complete_task set the flag of task i
MarkEveryCompleted(tasks, i) ==
    [j \in 1..Len(tasks) |-> [tasks[j] EXCEPT !.completed = TRUE]]

MarkCompleted(tasks, i) == [tasks EXCEPT ![i].completed = TRUE]

\* task_manager.complete_task(task_id): the result of save_tasks is not looked at
CompleteTask ==
    /\ \E id \in TaskIds, written \in BOOLEAN :
         LET tasks == tasks_file
             i == FirstWithId(tasks, id)
         IN  IF i = 0
             THEN /\ ret' = [NoRet EXCEPT !.op = "complete_task", !.id = id]
                  /\ UNCHANGED tasks_file
             ELSE /\ tasks_file' = save_tasks(MarkCompleted(tasks, i), written)
                  /\ ret' = [NoRet EXCEPT !.op = "complete_task", !.id = id,
                                          !.task = <<MarkCompleted(tasks, i)[i]>>,
                                          !.found = <<tasks[i]>>,
                                          !.saved = written]
    /\ UNCHANGED <<history, hist_seq, now, legacy_json, appended, concVars,
                   issued, db_tasks, task_seq, frontVars>>

\* task_manager.delete_task(task_id)
DeleteTask ==
    /\ \E id \in TaskIds, written \in BOOLEAN :
         LET tasks == tasks_file
             remaining == WithoutId(tasks, id)
         IN  IF Len(remaining) < Len(tasks)
             THEN /\ tasks_file' = save_tasks(remaining, written)
                  /\ ret' = [NoRet EXCEPT !.op = "delete_task", !.id = id,
                                          !.ok = written,
                                          !.found = FoundTask(tasks, id),
                                          !.saved = written]
             ELSE /\ ret' = [NoRet EXCEPT !.op = "delete_task", !.id = id]
                  /\ UNCHANGED tasks_file
    /\ UNCHANGED <<history, hist_seq, now, legacy_json, appended, concVars,
                   issued, db_tasks, task_seq, frontVars>>

(* ---------------- Persistent Store: table tasks (database.py) ---------------- *)
\* the dictionary the db_* functions build from a row
TaskOf(r) == [id |-> r.id, name |-> r.name, completed |-> r.completed]

RowWithId(rows, id) == {r \in rows : r.id = id}

\* fetchone() of SELECT ... WHERE id = ?
FetchTask(rows, id) ==
    IF RowWithId(rows, id) = {} THEN <<>>
    ELSE <<TaskOf(CHOOSE r \in rows : r.id = id)>>

\* the rows of table tasks as the table stores them, by rowid
RowsByRowid(rows) ==
    [i \in 1..Cardinality(rows) |->
        CHOOSE r \in rows : Cardinality({s \in rows : s.id < r.id}) = i - 1]

\* ORDER BY created_at ASC, ties left to the engine
OrderByCreatedAsc(rows, tie) ==
    Reverse(OrderByCreatedDesc(RowsByRowid(rows),
                               IF tie = "rowid_asc" THEN "rowid_desc" ELSE "rowid_asc"))

\* UPDATE tasks SET completed = ?, completed_at = ... WHERE id = ?
SetCompleted(rows, id, flag, ts) ==
    {IF r.id = id
     THEN [r EXCEPT !.completed = flag, !.completed_at = IF flag THEN ts ELSE Null]
     ELSE r : r \in rows}

\* DELETE FROM tasks WHERE id = ?
DeleteRow(rows, id) == {r \in rows : r.id # id}

\* DELETE FROM tasks WHERE completed = 1
ClearCompletedEveryRow(rows) == {}

ClearCompleted(rows) == {r \in rows : ~r.completed}

\* database.db_add_task(task_name)
DbAddTask ==
    /\ task_seq < MaxDbAdds
    /\ \E name \in Names :
         IF NameIsEmpty(name)
         THEN /\ ret' = [NoRet EXCEPT !.op = "db_add_task", !.name = name]
              /\ UNCHANGED <<db_tasks, task_seq>>
         ELSE /\ db_tasks' = db_tasks \cup
                     {[id |-> task_seq + 1, name |-> Strip(name), completed |-> FALSE,
                       created_at |-> now, completed_at |-> Null]}
              /\ task_seq' = task_seq + 1
              /\ ret' = [NoRet EXCEPT !.op = "db_add_task", !.name = name,
                                      !.id = task_seq + 1,
                                      !.task = <<[id |-> task_seq + 1,
                                                  name |-> Strip(name),
                                                  completed |-> FALSE]>>]
    /\ UNCHANGED <<history, hist_seq, now, legacy_json, appended, concVars,
                   tasks_file, issued, frontVars>>

\* database.db_list_tasks()
DbListTasks ==
    /\ \E tie \in TieOrders :
         LET rows == OrderByCreatedAsc(db_tasks, tie)
         IN  ret' = [NoRet EXCEPT !.op = "db_list_tasks",
                                  !.list = [i \in 1..Len(rows) |-> TaskOf(rows[i])]]
    /\ UNCHANGED <<history, hist_seq, now, legacy_json, appended, concVars, taskVars, frontVars>>

\* database.db_get_task(task_id)
DbGetTask ==
    /\ \E id \in TaskIds :
         ret' = [NoRet EXCEPT !.op = "db_get_task", !.id = id,
                              !.task = FetchTask(db_tasks, id)]
    /\ UNCHANGED <<history, hist_seq, now, legacy_json, appended, concVars, taskVars, frontVars>>

\* database.db_complete_task(task_id)
DbCompleteTask ==
    /\ \E id \in TaskIds :
         LET rows == SetCompleted(db_tasks, id, TRUE, now)
         IN  /\ db_tasks' = rows
             /\ ret' = [NoRet EXCEPT !.op = "db_complete_task", !.id = id,
                                     !.task = FetchTask(rows, id),
                                     !.found = FetchTask(db_tasks, id)]
    /\ UNCHANGED <<history, hist_seq, now, legacy_json, appended, concVars,
                   tasks_file, issued, task_seq, frontVars>>

\* database.db_delete_task(task_id)
DbDeleteTask ==
    /\ \E id \in TaskIds :
         LET rows == DeleteRow(db_tasks, id)
         IN  /\ db_tasks' = rows
             /\ ret' = [NoRet EXCEPT !.op = "db_delete_task", !.id = id,
                                     !.ok = Cardinality(db_tasks \ rows) > 0,
                                     !.found = FetchTask(db_tasks, id)]
    /\ UNCHANGED <<history, hist_seq, now, legacy_json, appended, concVars,
                   tasks_file, issued, task_seq, frontVars>>

\* database.db_clear_completed_tasks()
DbClearCompletedTasks ==
    /\ LET rows == ClearCompleted(db_tasks)
       IN  /\ db_tasks' = rows
           /\ ret' = [NoRet EXCEPT !.op = "db_clear_completed_tasks",
                                   !.n = Cardinality(db_tasks \ rows)]
    /\ UNCHANGED <<history, hist_seq, now, legacy_json, appended, concVars,
                   tasks_file, issued, task_seq, frontVars>>

\* web_ui.api_toggle_task(task_id), one request on its own
ApiToggleTask ==
    /\ \E id \in TaskIds :
         LET task == FetchTask(db_tasks, id)
         IN  IF task = <<>>
             THEN /\ ret' = [NoRet EXCEPT !.op = "api_toggle_task", !.id = id]
                  /\ UNCHANGED db_tasks
             ELSE LET rows == SetCompleted(db_tasks, id, ~task[1].completed, now)
                  IN  /\ db_tasks' = rows
                      /\ ret' = [NoRet EXCEPT !.op = "api_toggle_task", !.id = id,
                                              !.ok = TRUE,
                                              !.task = FetchTask(rows, id),
                                              !.found = task]
    /\ UNCHANGED <<history, hist_seq, now, legacy_json, appended, concVars,
                   tasks_file, issued, task_seq, frontVars>>

\* The operations of SpecTasks run within one second: created_at is the same for
\* all rows, so db_list_tasks returns them in either order of TieOrders, which
\* includes the order rows with increasing created_at have.
NextTasks ==
    \/ AddTask
    \/ ListTasks
    \/ CompleteTask
    \/ DeleteTask
    \/ DbAddTask
    \/ DbListTasks
    \/ DbGetTask
    \/ DbCompleteTask
    \/ DbDeleteTask
    \/ DbClearCompletedTasks
    \/ ApiToggleTask

SpecTasks == InitTasks /\ [][NextTasks]_vars

(* ---------------- properties of the task operations ---------------- *)
FileIds == {tasks_file[i].id : i \in 1..Len(tasks_file)}

FileTasks == {tasks_file[i] : i \in 1..Len(tasks_file)}

Blank(name) == \A i \in 1..Len(name) : name[i] = " "

\* C4: an identifier returned by add_task differs from every identifier an earlier
\* add_task returned, also those of tasks deleted since.
C4_IdentifiersNeverReused ==
    \A i, j \in 1..Len(issued) : i # j => issued[i] # issued[j]

\* C5: after Task Registry operations alone, the Store's db_list_tasks reports the
\* tasks that the Task Registry's list_tasks reports.
C5_StoreReportsRegistryTasks ==
    (ret.op = "db_list_tasks" /\ task_seq = 0) => ret.list = tasks_file

C7_CompleteAbsentOrIdempotent ==
    [][/\ ret'.op = "complete_task" =>
            IF ret'.id \notin FileIds
            THEN ret'.task = <<>> /\ tasks_file' = tasks_file
            ELSE /\ ret'.task # <<>>
                 /\ ret'.task[1].id = ret'.id
                 /\ ret'.task[1].completed
                 /\ Len(tasks_file') = Len(tasks_file)
                 /\ \A i \in 1..Len(tasks_file) :
                      /\ tasks_file'[i].id = tasks_file[i].id
                      /\ tasks_file'[i].name = tasks_file[i].name
                      /\ tasks_file[i].completed => tasks_file'[i].completed
                      /\ tasks_file[i].id # ret'.id =>
                             tasks_file'[i].completed = tasks_file[i].completed
                      /\ (ret'.saved /\ tasks_file[i].id = ret'.id) =>
                             tasks_file'[i].completed
       /\ ret'.op = "db_complete_task" =>
            IF \A r \in db_tasks : r.id # ret'.id
            THEN ret'.task = <<>> /\ db_tasks' = db_tasks
            ELSE /\ ret'.task # <<>>
                 /\ ret'.task[1].id = ret'.id
                 /\ ret'.task[1].completed
                 /\ Cardinality(db_tasks') = Cardinality(db_tasks)
                 /\ \A r \in db_tasks : \E q \in db_tasks' :
                      /\ q.id = r.id
                      /\ q.name = r.name
                      /\ q.completed = (r.completed \/ r.id = ret'.id)]_vars

\* a task that was already completed has been completed again
C7_CompletedTwice ==
    /\ ret.op \in {"complete_task", "db_complete_task"}
    /\ ret.found # <<>>
    /\ ret.found[1].completed
    /\ ret.task # <<>>
    /\ ret.task[1].completed

\* C8: adding a task with an empty or whitespace-only name returns None and
\* leaves the task list and the next identifier as they were.
C8_BlankNameAddsNothing ==
    [][/\ (ret'.op = "add_task" /\ Blank(ret'.name)) =>
            /\ ret'.task = <<>>
            /\ tasks_file' = tasks_file
            /\ get_next_id(tasks_file') = get_next_id(tasks_file)
       /\ (ret'.op = "db_add_task" /\ Blank(ret'.name)) =>
            /\ ret'.task = <<>>
            /\ db_tasks' = db_tasks
            /\ task_seq' = task_seq]_vars

\* a whitespace-only name was refused while the list held a task
C8_WhitespaceNameRefused ==
    /\ ret.op = "add_task"
    /\ ret.name # <<>>
    /\ Blank(ret.name)
    /\ ret.task = <<>>
    /\ tasks_file # <<>>

\* C9: deleting an existing task returns True and removes that task only; deleting
\* an id that is not there (the same id once more) returns False and changes
\* nothing.
C9_DeleteTwice ==
    [][/\ ret'.op = "delete_task" =>
            /\ ret'.id \notin FileIds => (~ret'.ok /\ tasks_file' = tasks_file)
            /\ (ret'.id \in FileIds /\ ret'.saved) =>
                 /\ ret'.ok
                 /\ Len(tasks_file') = Len(tasks_file) - 1
                 /\ \A i \in 1..Len(tasks_file) :
                      tasks_file[i].id # ret'.id =>
                          \E j \in 1..Len(tasks_file') : tasks_file'[j] = tasks_file[i]
            /\ ret'.ok => \A j \in 1..Len(tasks_file') : tasks_file'[j].id # ret'.id
       /\ ret'.op = "db_delete_task" =>
            /\ ret'.ok = (\E r \in db_tasks : r.id = ret'.id)
            /\ \A r \in db_tasks : r.id # ret'.id => r \in db_tasks'
            /\ \A r \in db_tasks' : r \in db_tasks /\ r.id # ret'.id]_vars

\* an id that add_task issued and a delete removed is deleted once more
C9_SecondDeleteReportsAbsence ==
    /\ ret.op = "delete_task"
    /\ ~ret.ok
    /\ ret.found = <<>>
    /\ \E i \in 1..Len(issued) : issued[i] = ret.id
    /\ tasks_file # <<>>

\* C10: when add_task, complete_task or delete_task reports success, the task list
\* in the store reflects the change.
C10_SuccessIsPersisted ==
    /\ (ret.op = "add_task" /\ ret.task # <<>>) => ret.task[1] \in FileTasks
    /\ (ret.op = "complete_task" /\ ret.task # <<>>) =>
           \E t \in FileTasks : t.id = ret.id /\ t.completed
    /\ (ret.op = "delete_task" /\ ret.ok) => ret.id \notin FileIds

(* ---------------- Model Gateway: gemini_client.py ---------------- *)
\* Texts are sequences of string tokens: the characters of Chars and the fixed
\* pieces of the program's format strings. None is <<>> and a value v that may
\* be None is <<v>>.

\* number of parts in a candidate of the hosted model's reply
MaxParts == 2

\* argument values of a function call: str, int and None
StrValue(s) == [str |-> s]

IntValue(n) == [int |-> n]

NoneValue == [none |-> TRUE]

NoArgs == [k \in {} |-> NoneValue]

Arg(key, value) == [k \in {key} |-> value]

\* dict.get(key, default)
Get(args, key, default) == IF key \in DOMAIN args THEN args[key] ELSE default

\* part.function_call payloads the hosted model may return: the three declared
\* functions with their argument present, absent or of another type, a function
\* that is not declared, and a payload without a name
CallNames == {<<>>, <<" ">>, <<"a">>}

FunctionCalls ==
    {[name |-> "add_task", args |-> <<Arg("task_name", StrValue(n))>>] : n \in CallNames}
    \cup {[name |-> "add_task", args |-> <<Arg("task_name", IntValue(5))>>],
          [name |-> "add_task", args |-> <<>>],
          [name |-> "list_tasks", args |-> <<NoArgs>>],
          [name |-> "complete_task", args |-> <<>>],
          [name |-> "complete_task", args |-> <<Arg("task_id", NoneValue)>>],
          [name |-> "delete_task", args |-> <<Arg("task_id", IntValue(1))>>],
          [name |-> "", args |-> <<>>]}
    \cup {[name |-> "complete_task", args |-> <<Arg("task_id", IntValue(i))>>] :
              i \in TaskIds \cup {5}}

PartTexts == {<<" ">>, <<"a">>, <<"a", " ">>}

\* types.Part: a function call or text
Parts ==
    {[function_call |-> <<fc>>, text |-> <<>>] : fc \in FunctionCalls}
    \cup {[function_call |-> <<>>, text |-> <<t>>] : t \in PartTexts}

\* what _client.models.generate_content does: it raises, or returns a response
\* with no candidate or with one candidate
Raises == [kind |-> "raise", error |-> "503 UNAVAILABLE", candidates |-> <<>>]

Replies ==
    {Raises, [kind |-> "response", error |-> "", candidates |-> <<>>]}
    \cup {[kind |-> "response", error |-> "", candidates |-> <<[parts |-> ps]>>] :
              ps \in UNION {[1..n -> Parts] : n \in 0..MaxParts}}

\* GeminiResponse(text=..., is_function_call=False)
TextResponse(t) == [text |-> <<t>>, function_call |-> <<>>, is_function_call |-> FALSE]

\* GeminiResponse(function_call=FunctionCallResult(name, args), is_function_call=True)
CallResponse(name, args) ==
    [text |-> <<>>, function_call |-> <<[name |-> name, args |-> args]>>,
     is_function_call |-> TRUE]

AdvisoryText == <<"API not configured. Please set GEMINI_API_KEY.">>

\* _convert_history_to_gemini_format(history)
ConvertHistory(hist) ==
    [i \in 1..Len(hist) |->
        [role |-> IF Get(hist[i], "role", "user") = "assistant" THEN "model"
                  ELSE Get(hist[i], "role", "user"),
         text |-> Get(hist[i], "content", <<>>)]]

\* contents: the converted history, then the message as a user turn
Contents(message, hist) ==
    ConvertHistory(hist) \o <<[role |-> "user", text |-> message]>>

\* for part in candidate.content.parts: the first part whose function_call is set
\* and has a name
RECURSIVE LastNamedCall(_)
LastNamedCall(parts) ==
    IF parts = <<>> THEN <<>>
    ELSE IF LastNamedCall(Tail(parts)) # <<>> THEN LastNamedCall(Tail(parts))
    ELSE IF Head(parts).function_call # <<>> /\ Head(parts).function_call[1].name # ""
    THEN Head(parts).function_call
    ELSE <<>>

RECURSIVE FirstNamedCall(_)
FirstNamedCall(parts) ==
    IF parts = <<>> THEN <<>>
    ELSE IF Head(parts).function_call # <<>> /\ Head(parts).function_call[1].name # ""
    THEN Head(parts).function_call
    ELSE FirstNamedCall(Tail(parts))

\* func_args = {}; if func_call.args: func_args = dict(func_call.args)
CoerceArgs(args) == IF args = <<>> \/ DOMAIN args[1] = {} THEN NoArgs ELSE args[1]

\* response.text of the google.genai response: the texts of the first candidate's
\* text parts joined, None when there is no text part
RECURSIVE JoinText(_)
JoinText(parts) ==
    IF parts = <<>> THEN <<>>
    ELSE (IF Head(parts).text # <<>> THEN Head(parts).text[1] ELSE <<>>)
         \o JoinText(Tail(parts))

ResponseText(candidates) ==
    IF candidates = <<>> \/ \A i \in 1..Len(candidates[1].parts) :
                                candidates[1].parts[i].text = <<>>
    THEN <<>>
    ELSE <<JoinText(candidates[1].parts)>>

\* text_response = ""; if response.text: text_response = response.text.strip()
TrimmedText(candidates) ==
    IF ResponseText(candidates) # <<>> /\ ResponseText(candidates)[1] # <<>>
    THEN Strip(ResponseText(candidates)[1])
    ELSE <<>>

\* send_message, lines 203-234: the Response read from the reply
ParseReply(candidates) ==
    LET parts == IF candidates # <<>> THEN candidates[1].parts ELSE <<>>
        call == FirstNamedCall(parts)
    IN  IF call # <<>>
        THEN CallResponse(call[1].name, CoerceArgs(call[1].args))
        ELSE TextResponse(TrimmedText(candidates))

\* the outcome of a call: raised, with the exception's description, or returned,
\* with the Response; request is the contents given to generate_content, <<>>
\* when the hosted model was not contacted
Returned(response, request) ==
    [raised |-> FALSE, error |-> "", response |-> <<response>>, request |-> request]

Raised(error, request) ==
    [raised |-> TRUE, error |-> error, response |-> <<>>, request |-> request]

\* the try block of send_message
TryGenerate(message, hist, reply) ==
    LET contents == Contents(message, hist)
    IN  IF reply.kind = "raise"
        THEN Raised(reply.error, <<contents>>)
        ELSE Returned(ParseReply(reply.candidates), <<contents>>)

\* except Exception as e: return GeminiResponse(text=error_msg, ...)
PropagateException(out) == out

CatchException(out) ==
    IF out.raised
    THEN Returned(TextResponse(<<"Error communicating with Gemini: ", out.error>>),
                  out.request)
    ELSE out

\* if _client is None: return the advisory Response
SendUnconfiguredContacts(configured, message, hist, reply) ==
    CatchException(TryGenerate(message, hist, reply))

send_message(configured, message, hist, reply) ==
    IF ~configured
    THEN Returned(TextResponse(AdvisoryText), <<>>)
    ELSE CatchException(TryGenerate(message, hist, reply))


\* the arguments send_message is called with
GatewayMessages == {<<"a">>, <<"a", " ">>}

GatewayHistories ==
    {<<>>,
     <<[role |-> "user", content |-> <<"a">>], [role |-> "assistant", content |-> <<"a">>]>>,
     <<Arg("content", <<"a">>)>>}

InitGateway ==
    /\ history = <<>>
    /\ hist_seq = 0
    /\ now = 0
    /\ legacy_json = <<>>
    /\ appended = <<>>
    /\ ret = NoRet
    /\ conn = [w \in Writers |-> Idle]
    /\ observed = NotObserved
    /\ tasks_file = <<>>
    /\ issued = <<>>
    /\ db_tasks = {}
    /\ task_seq = 0
    /\ client = FALSE
    /\ contacts = 0
    /\ turn = NoTurn
    /\ req = [w \in Writers |-> NoRequest]
    /\ gw \in {[pc |-> "called", message |-> m, history |-> h, reply |-> r, out |-> <<>>] :
                   m \in GatewayMessages, h \in GatewayHistories, r \in Replies}
    /\ stats = NoStats

\* configure_api(api_key): key is whether a key was given or is in the
\* environment, constructed whether genai.Client(api_key=key) returned
ConfigureApi ==
    /\ \E key \in BOOLEAN, constructed \in BOOLEAN :
         /\ client' = IF key /\ constructed THEN TRUE ELSE client
         /\ ret' = [NoRet EXCEPT !.op = "configure_api", !.ok = key /\ constructed]
    /\ UNCHANGED <<history, hist_seq, now, legacy_json, appended, concVars, taskVars,
                   contacts, turn, req, gw, stats>>

\* send_message(message, history)
SendMessage ==
    /\ gw.pc = "called"
    /\ LET out == send_message(client, gw.message, gw.history, gw.reply)
       IN  /\ gw' = [gw EXCEPT !.pc = "returned", !.out = <<out>>]
           /\ contacts' = IF out.request # <<>> THEN contacts + 1 ELSE contacts
    /\ ret' = [NoRet EXCEPT !.op = "send_message"]
    /\ UNCHANGED <<history, hist_seq, now, legacy_json, appended, concVars, taskVars,
                   client, turn, req, stats>>

NextGateway ==
    \/ ConfigureApi
    \/ SendMessage

SpecGateway == InitGateway /\ [][NextGateway]_vars

(* ---------------- properties of the Model Gateway ---------------- *)
\* a GeminiResponse: text or a function call
IsResponse(r) ==
    /\ r.is_function_call \in BOOLEAN
    /\ IF r.is_function_call THEN r.function_call # <<>> ELSE r.text # <<>>

\* C16: send_message returns a Response and never raises; when the external call
\* fails with an exception, the Response is a text Response whose text embeds the
\* description of the error.
C16_ErrorsStayInsideGateway ==
    gw.pc = "returned" =>
        /\ ~gw.out[1].raised
        /\ gw.out[1].response # <<>>
        /\ IsResponse(gw.out[1].response[1])
        /\ (gw.out[1].request # <<>> /\ gw.reply.kind = "raise") =>
               /\ ~gw.out[1].response[1].is_function_call
               /\ gw.out[1].response[1].function_call = <<>>
               /\ \E i \in 1..Len(gw.out[1].response[1].text[1]) :
                      gw.out[1].response[1].text[1][i] = gw.reply.error

\* generate_content raised and send_message returned
C16_ExternalCallFailed ==
    /\ gw.pc = "returned"
    /\ gw.out[1].request # <<>>
    /\ gw.reply.kind = "raise"
    /\ gw.out[1].response # <<>>

\* C17: while the gateway is not configured, send_message returns the advisory
\* text Response without raising and without a call to the hosted model, and the
\* gateway becomes configured only by a configure_api call that succeeds.
C17_UnconfiguredGatewayAdvises ==
    [][/\ (~client /\ gw.pc = "called" /\ gw'.pc = "returned") =>
             /\ ~gw'.out[1].raised
             /\ gw'.out[1].response = <<TextResponse(AdvisoryText)>>
             /\ gw'.out[1].request = <<>>
             /\ contacts' = contacts
             /\ ~client'
       /\ (~client /\ client') => (ret'.op = "configure_api" /\ ret'.ok)]_vars

\* send_message returned the advisory text while the gateway was unconfigured and
\* the hosted model had a reply to give
C17_AdvisedWhileUnconfigured ==
    /\ ~client
    /\ gw.pc = "returned"
    /\ gw.out[1].response = <<TextResponse(AdvisoryText)>>
    /\ contacts = 0
    /\ gw.reply.kind = "response"
    /\ gw.reply.candidates # <<>>

\* the parts of the reply's first candidate
ReplyParts == IF gw.reply.candidates = <<>> THEN <<>> ELSE gw.reply.candidates[1].parts

\* the Response for parts whose part j is the function call that decides
AnswersPart(r, parts, j) ==
    /\ r.is_function_call
    /\ r.function_call # <<>>
    /\ r.function_call[1].name = parts[j].function_call[1].name
    /\ r.function_call[1].args = CoerceArgs(parts[j].function_call[1].args)

\* the Response for parts none of which decides: the trimmed text
AnswersText(r, parts) ==
    /\ ~r.is_function_call
    /\ r.function_call = <<>>
    /\ r.text = <<Strip(JoinText(parts))>>

\* C18 as stated: the first part carrying a function-call payload makes the
\* Response a function-call Response with that part's name and arguments; with no
\* such part the Response is the trimmed text.
C18_FirstCallPartDecides ==
    (gw.pc = "returned" /\ gw.out[1].request # <<>> /\ gw.reply.kind = "response") =>
        LET parts == ReplyParts
            calls == {j \in 1..Len(parts) : parts[j].function_call # <<>>}
        IN  IF calls = {}
            THEN AnswersText(gw.out[1].response[1], parts)
            ELSE AnswersPart(gw.out[1].response[1], parts,
                             CHOOSE j \in calls : \A k \in calls : j <= k)

\* C18 amended: the first part carrying a function-call payload that has a name
\* decides; payloads without a name are passed over, and with no named payload
\* the Response is the trimmed text.
C18_FirstNamedCallPartDecides ==
    (gw.pc = "returned" /\ gw.out[1].request # <<>> /\ gw.reply.kind = "response") =>
        LET parts == ReplyParts
            calls == {j \in 1..Len(parts) : /\ parts[j].function_call # <<>>
                                            /\ parts[j].function_call[1].name # ""}
        IN  IF calls = {}
            THEN AnswersText(gw.out[1].response[1], parts)
            ELSE AnswersPart(gw.out[1].response[1], parts,
                             CHOOSE j \in calls : \A k \in calls : j <= k)

\* a reply of two parts that both carry a named function call was parsed
C18_TwoCallPartsParsed ==
    /\ gw.pc = "returned"
    /\ gw.out[1].request # <<>>
    /\ Len(ReplyParts) = 2
    /\ \A j \in 1..2 : /\ ReplyParts[j].function_call # <<>>
                       /\ ReplyParts[j].function_call[1].name # ""
    /\ ReplyParts[1].function_call[1].name # ReplyParts[2].function_call[1].name
    /\ gw.out[1].response[1].is_function_call


(* ---------------- Dispatch Loop: main.py, web_ui.py ---------------- *)
\* Python truth value of an argument value
Truthy(v) ==
    \/ "str" \in DOMAIN v /\ v.str # <<>>
    \/ "int" \in DOMAIN v /\ v.int # 0

\* the outcome of a Task Registry call made by the execute step: raised with the
\* exception's description, or returned with the task (<<>> for None) or the
\* task list; file is storage.json afterwards
RegistryReturned(task, file) ==
    [raised |-> FALSE, error |-> "", task |-> task, file |-> file]

RegistryRaised(error, file) ==
    [raised |-> TRUE, error |-> error, task |-> <<>>, file |-> file]

\* task_manager.add_task(task_name) for a task_name of any type: str.strip does
\* not exist on an int
add_task(task_name, tasks, written) ==
    IF ~Truthy(task_name) THEN RegistryReturned(<<>>, tasks)
    ELSE IF "str" \notin DOMAIN task_name
    THEN RegistryRaised("'int' object has no attribute 'strip'", tasks)
    ELSE IF NameIsEmpty(task_name.str) THEN RegistryReturned(<<>>, tasks)
    ELSE LET new_task == [id |-> get_next_id(tasks), name |-> Strip(task_name.str),
                          completed |-> FALSE]
         IN  IF written THEN RegistryReturned(<<new_task>>, Append(tasks, new_task))
             ELSE RegistryReturned(<<>>, tasks)

\* task_manager.complete_task(task_id): task.get('id') == task_id holds for an int
\* only
complete_task(task_id, tasks, written) ==
    LET i == IF "int" \in DOMAIN task_id THEN FirstWithId(tasks, task_id.int) ELSE 0
    IN  IF i = 0 THEN RegistryReturned(<<>>, tasks)
        ELSE RegistryReturned(<<MarkCompleted(tasks, i)[i]>>,
                              IF written THEN MarkCompleted(tasks, i) ELSE tasks)

\* str(task_id) in an f-string
ShowValue(v) ==
    IF "int" \in DOMAIN v THEN <<ToString(v.int)>>
    ELSE IF "str" \in DOMAIN v THEN v.str
    ELSE <<"None">>

\* format_tasks_for_display(tasks)
RECURSIVE TaskLines(_)
TaskLines(tasks) ==
    IF tasks = <<>> THEN <<>>
    ELSE <<"[", ToString(Head(tasks).id), "] ",
           IF Head(tasks).completed THEN "done" ELSE "open", " ">>
         \o Head(tasks).name
         \o (IF Tail(tasks) = <<>> THEN <<>> ELSE <<"\n">>)
         \o TaskLines(Tail(tasks))

format_tasks_for_display(tasks) ==
    IF tasks = <<>> THEN <<"No tasks found.">> ELSE TaskLines(tasks)

\* the outcome of the execute step: raised, or returned with the result string
Executed(result, file) ==
    [raised |-> FALSE, error |-> "", result |-> <<result>>, file |-> file]

ExecuteRaised(error, file) ==
    [raised |-> TRUE, error |-> error, result |-> <<>>, file |-> file]

\* the try block of execute_function_call
TryExecute(func_call, tasks, written) ==
    LET func_name == func_call.name
        func_args == func_call.args
    IN  IF func_name = "add_task"
        THEN LET out == add_task(Get(func_args, "task_name", StrValue(<<>>)),
                                 tasks, written)
             IN  IF out.raised THEN ExecuteRaised(out.error, out.file)
                 ELSE IF out.task # <<>>
                 THEN Executed(<<"Task added successfully with ID ",
                                 ToString(out.task[1].id), ": ">> \o out.task[1].name,
                               out.file)
                 ELSE Executed(<<"Failed to add task. Task name may be empty.">>,
                               out.file)
        ELSE IF func_name = "list_tasks"
        THEN Executed(format_tasks_for_display(tasks), tasks)
        ELSE IF func_name = "complete_task"
        THEN LET task_id == Get(func_args, "task_id", NoneValue)
             IN  IF task_id = NoneValue
                 THEN Executed(<<"Error: No task_id provided.">>, tasks)
                 ELSE LET out == complete_task(task_id, tasks, written)
                      IN  IF out.task # <<>>
                          THEN Executed(<<"Task completed: ">> \o out.task[1].name,
                                        out.file)
                          ELSE Executed(<<"Task with ID ">> \o ShowValue(task_id)
                                            \o <<" not found.">>, out.file)
        ELSE Executed(<<"Unknown function: ", func_name>>, tasks)

\* except Exception as e: return f"Error executing {func_name}: {str(e)}"
ExecutePropagates(func_call, out) == out

ExecuteCatches(func_call, out) ==
    IF out.raised
    THEN Executed(<<"Error executing ", func_call.name, ": ", out.error>>, out.file)
    ELSE out

\* execute_function_call(func_call)
execute_function_call(func_call, tasks, written) ==
    ExecuteCatches(func_call, TryExecute(func_call, tasks, written))


(* ---------------- one caller turn: run_cli, api_chat ---------------- *)
FrontEnds == {"cli", "web"}

\* caller texts: input().strip() and data.get('message', '').strip() that are not
\* empty and not a direct command
TurnTexts == {<<"a">>}

\* replies of the hosted model to a turn's send_message calls
TurnReplies ==
    {Raises, [kind |-> "response", error |-> "", candidates |-> <<>>]}
    \cup {[kind |-> "response", error |-> "", candidates |-> <<[parts |-> ps]>>] :
              ps \in UNION {[1..n -> Parts] : n \in 0..1}}

\* the store an earlier turn left: the caller text of second 0, the reply of
\* second 1
EarlierTurn ==
    <<[id |-> 1, role |-> "user", content |-> <<"a">>, created_at |-> 0],
      [id |-> 2, role |-> "model", content |-> <<"a", " ", "a">>, created_at |-> 1]>>

\* the messages of the rows in the order they were appended
Messages(rows) ==
    [i \in 1..Len(rows) |-> [role |-> rows[i].role, content |-> rows[i].content]]

\* history[:-1]
AllButLast(s) == SubSeq(s, 1, Len(s) - 1)

FallbackText == <<"I'm not sure how to respond to that.">>

\* if response.is_function_call and response.function_call
IsFunctionCall(response) == response.is_function_call /\ response.function_call # <<>>

\* if x.text: the text is neither None nor empty
HasText(response) == response.text # <<>> /\ response.text[1] # <<>>

\* process_ai_response, the branches without a function call
PlainTextTrimmedAgain(response) ==
    IF HasText(response) THEN Tail(response.text[1]) ELSE FallbackText

PlainText(response) ==
    IF HasText(response) THEN response.text[1] ELSE FallbackText

\* if follow_up.text: return follow_up.text; return func_result
SummaryTextOfFollowUpOnly(follow_up, func_result) ==
    IF follow_up.text # <<>> THEN follow_up.text[1] ELSE func_result

SummaryText(follow_up, func_result) ==
    IF HasText(follow_up) THEN follow_up.text[1] ELSE func_result

InitTurn ==
    /\ history \in {<<>>, EarlierTurn}
    /\ hist_seq = Len(history)
    /\ now = 1
    /\ legacy_json = <<>>
    /\ appended = Messages(history)
    /\ ret = NoRet
    /\ conn = [w \in Writers |-> Idle]
    /\ observed = NotObserved
    /\ tasks_file \in {<<>>, <<[id |-> 1, name |-> <<"a">>, completed |-> FALSE]>>}
    /\ issued = [i \in 1..Len(tasks_file) |-> tasks_file[i].id]
    /\ db_tasks = {}
    /\ task_seq = 0
    /\ client \in BOOLEAN
    /\ contacts = 0
    /\ turn = NoTurn
    /\ req = [w \in Writers |-> NoRequest]
    /\ gw = NoCall
    /\ stats = NoStats

\* one second passes during the turn
TickTurn ==
    /\ now < 1 + MaxClock
    /\ turn.pc \notin {"idle", "done"}
    /\ now' = now + 1
    /\ UNCHANGED <<history, hist_seq, legacy_json, appended, ret, concVars, taskVars,
                   frontVars>>

\* run_cli line 220, api_chat line 67: append_message("user", text)
TurnAppendUser ==
    /\ turn.pc = "idle"
    /\ \E front \in FrontEnds, text \in TurnTexts, tie \in TieOrders :
         /\ history' = db_append_message(history, hist_seq, "user", text,
                                         MAX_MESSAGES, now, tie)
         /\ turn' = [NoTurn EXCEPT !.pc = "get_history", !.front = front,
                                   !.text = text, !.stored = Messages(history),
                                   !.log = <<"append_user">>]
         /\ appended' = Append(appended, [role |-> "user", content |-> text])
    /\ hist_seq' = hist_seq + 1
    /\ ret' = [NoRet EXCEPT !.op = "append_message"]
    /\ UNCHANGED <<now, legacy_json, concVars, taskVars, client, contacts, req, gw, stats>>

\* run_cli line 223, api_chat line 70: history = get_history()
TurnGetHistory ==
    /\ turn.pc = "get_history"
    /\ \E tie \in TieOrders :
         turn' = [turn EXCEPT !.pc = "send",
                              !.history = db_get_history(history, MAX_MESSAGES, tie)]
    /\ ret' = [NoRet EXCEPT !.op = "get_history"]
    /\ UNCHANGED <<history, hist_seq, now, legacy_json, appended, concVars, taskVars,
                   client, contacts, req, gw, stats>>

\* the history argument of the first send_message: run_cli line 226 passes
\* history, api_chat line 73 passes history[:-1]
SentHistory(front, hist) == IF front = "web" THEN AllButLast(hist) ELSE hist

\* run_cli line 226, api_chat line 73: response = send_message(...)
TurnSend ==
    /\ turn.pc = "send"
    /\ \E reply \in TurnReplies :
         LET out == send_message(client, turn.text,
                                 SentHistory(turn.front, turn.history), reply)
         IN  /\ turn' = IF out.raised
                        THEN [turn EXCEPT !.pc = "raised"]
                        ELSE [turn EXCEPT !.pc = "process", !.response = out.response,
                                          !.sent = turn.sent \o out.request,
                                          !.log = Append(turn.log, "send")]
             /\ contacts' = IF out.request # <<>> THEN contacts + 1 ELSE contacts
    /\ ret' = [NoRet EXCEPT !.op = "send_message"]
    /\ UNCHANGED <<history, hist_seq, now, legacy_json, appended, concVars, taskVars,
                   client, req, gw, stats>>

\* process_ai_response, lines 170-173: the Response holds no function call
TurnReturnText ==
    /\ turn.pc = "process"
    /\ ~IsFunctionCall(turn.response[1])
    /\ turn' = [turn EXCEPT !.pc = "append_model",
                            !.final = <<PlainText(turn.response[1])>>]
    /\ ret' = [NoRet EXCEPT !.op = "process_ai_response"]
    /\ UNCHANGED <<history, hist_seq, now, legacy_json, appended, concVars, taskVars,
                   client, contacts, req, gw, stats>>

\* process_ai_response, line 151: func_result = execute_function_call(...)
TurnExecute ==
    /\ turn.pc = "process"
    /\ IsFunctionCall(turn.response[1])
    /\ \E written \in BOOLEAN :
         LET out == execute_function_call(turn.response[1].function_call[1],
                                          tasks_file, written)
         IN  /\ tasks_file' = out.file
             /\ issued' = IF Len(out.file) > Len(tasks_file)
                          THEN Append(issued, out.file[Len(out.file)].id) ELSE issued
             /\ turn' = IF out.raised
                        THEN [turn EXCEPT !.pc = "raised"]
                        ELSE [turn EXCEPT !.pc = "summarize", !.result = out.result,
                                          !.log = Append(turn.log, "execute")]
    /\ ret' = [NoRet EXCEPT !.op = "execute_function_call"]
    /\ UNCHANGED <<history, hist_seq, now, legacy_json, appended, concVars,
                   db_tasks, task_seq, client, contacts, req, gw, stats>>

\* process_ai_response run again on a follow-up that holds a function call
TurnSummarizeLoops ==
    /\ turn.pc = "summarize"
    /\ \E tie \in TieOrders, reply \in TurnReplies :
         LET hist == db_get_history(history, MAX_MESSAGES, tie)
             out == send_message(client,
                                 <<"Function executed. Result: ">> \o turn.result[1],
                                 hist, reply)
         IN  /\ turn' = IF out.raised
                        THEN [turn EXCEPT !.pc = "raised"]
                        ELSE IF IsFunctionCall(out.response[1])
                        THEN [turn EXCEPT !.pc = "process", !.history = hist,
                                          !.response = out.response,
                                          !.sent = turn.sent \o out.request,
                                          !.log = Append(turn.log, "send")]
                        ELSE [turn EXCEPT !.pc = "append_model", !.history = hist,
                                          !.follow_up = out.response,
                                          !.final = <<SummaryText(out.response[1],
                                                                  turn.result[1])>>,
                                          !.sent = turn.sent \o out.request,
                                          !.log = Append(turn.log, "send")]
             /\ contacts' = IF out.request # <<>> THEN contacts + 1 ELSE contacts
    /\ ret' = [NoRet EXCEPT !.op = "send_message"]
    /\ UNCHANGED <<history, hist_seq, now, legacy_json, appended, concVars, taskVars,
                   client, req, gw, stats>>

\* process_ai_response, lines 160-168: history = get_history(), the second
\* send_message and the choice of the text returned
TurnSummarize ==
    /\ turn.pc = "summarize"
    /\ \E tie \in TieOrders, reply \in TurnReplies :
         LET hist == db_get_history(history, MAX_MESSAGES, tie)
             out == send_message(client,
                                 <<"Function executed. Result: ">> \o turn.result[1],
                                 hist, reply)
         IN  /\ turn' = IF out.raised
                        THEN [turn EXCEPT !.pc = "raised"]
                        ELSE [turn EXCEPT !.pc = "append_model", !.history = hist,
                                          !.follow_up = out.response,
                                          !.final = <<SummaryText(out.response[1],
                                                                  turn.result[1])>>,
                                          !.sent = turn.sent \o out.request,
                                          !.log = Append(turn.log, "send")]
             /\ contacts' = IF out.request # <<>> THEN contacts + 1 ELSE contacts
    /\ ret' = [NoRet EXCEPT !.op = "send_message"]
    /\ UNCHANGED <<history, hist_seq, now, legacy_json, appended, concVars, taskVars,
                   client, req, gw, stats>>

\* run_cli line 233, api_chat line 79: append_message("model", ai_response)
TurnAppendModel ==
    /\ turn.pc = "append_model"
    /\ \E tie \in TieOrders :
         history' = db_append_message(history, hist_seq, "model", turn.final[1],
                                      MAX_MESSAGES, now, tie)
    /\ hist_seq' = hist_seq + 1
    /\ appended' = Append(appended, [role |-> "model", content |-> turn.final[1]])
    /\ turn' = [turn EXCEPT !.pc = "done", !.log = Append(turn.log, "append_model")]
    /\ ret' = [NoRet EXCEPT !.op = "append_message"]
    /\ UNCHANGED <<now, legacy_json, concVars, taskVars, client, contacts, req, gw, stats>>

NextTurn ==
    \/ TickTurn
    \/ TurnAppendUser
    \/ TurnGetHistory
    \/ TurnSend
    \/ TurnReturnText
    \/ TurnExecute
    \/ TurnSummarize
    \/ TurnAppendModel

SpecTurn == InitTurn /\ [][NextTurn]_vars


(* ---------------- properties of a caller turn ---------------- *)
IsPrefix(a, b) == Len(a) <= Len(b) /\ a = SubSeq(b, 1, Len(a))

\* the two orders of steps a turn may take
TurnOrders ==
    {<<"append_user", "send", "append_model">>,
     <<"append_user", "send", "execute", "send", "append_model">>}

\* C11: a turn appends the caller text, calls the gateway, executes one function
\* and calls the gateway once more only if the reply is a function call, then
\* appends the final text: at most two gateway calls, at most one function
\* executed, and the user message then the model message appended.
C11_TurnFollowsFixedOrder ==
    /\ \E order \in TurnOrders : IsPrefix(turn.log, order)
    /\ Len(turn.log) >= 3 /\ turn.log[3] = "execute" => IsFunctionCall(turn.response[1])
    /\ turn.pc = "done" =>
           /\ turn.log \in TurnOrders
           /\ appended = turn.stored \o <<[role |-> "user", content |-> turn.text],
                                          [role |-> "model", content |-> turn.final[1]]>>

\* a turn ended whose follow-up reply was a function call
C11_FollowUpCallNotExecuted ==
    /\ turn.pc = "done"
    /\ turn.follow_up # <<>>
    /\ IsFunctionCall(turn.follow_up[1])
    /\ Len(turn.log) = 5

DispatchTable == {"add_task", "list_tasks", "complete_task"}

\* C12: the execute step returns a string and never raises: a diagnostic for an
\* unknown function name, for complete_task without task_id, for complete_task
\* with an id no task has ("not found"), and for an exception of the Task
\* Registry, naming the function.
C12_ExecuteNeverRaises ==
    [][(turn.pc = "process" /\ turn'.pc # "process" /\ IsFunctionCall(turn.response[1])) =>
          LET call == turn.response[1].function_call[1]
          IN  /\ turn'.pc = "summarize"
              /\ turn'.result # <<>>
              /\ call.name \notin DispatchTable =>
                     /\ turn'.result[1] = <<"Unknown function: ", call.name>>
                     /\ tasks_file' = tasks_file
              /\ (call.name = "complete_task" /\ "task_id" \notin DOMAIN call.args) =>
                     /\ turn'.result[1] = <<"Error: No task_id provided.">>
                     /\ tasks_file' = tasks_file
              /\ (/\ call.name = "complete_task"
                  /\ "task_id" \in DOMAIN call.args
                  /\ "int" \in DOMAIN call.args.task_id
                  /\ \A i \in 1..Len(tasks_file) :
                         tasks_file[i].id # call.args.task_id.int) =>
                     /\ turn'.result[1] = <<"Task with ID ", ToString(call.args.task_id.int),
                                            " not found.">>
                     /\ tasks_file' = tasks_file
              /\ (/\ call.name = "add_task"
                  /\ "task_name" \in DOMAIN call.args
                  /\ "int" \in DOMAIN call.args.task_name
                  /\ call.args.task_name.int # 0) =>
                     /\ Len(turn'.result[1]) = 4
                     /\ turn'.result[1][1] = "Error executing "
                     /\ turn'.result[1][2] = call.name
                     /\ tasks_file' = tasks_file]_vars

\* complete_task with task_id 5 was executed while no task 5 exists
C12_MissingTaskDiagnosed ==
    /\ turn.pc = "summarize"
    /\ turn.response[1].function_call[1].name = "complete_task"
    /\ turn.result = << <<"Task with ID ", "5", " not found.">> >>
    /\ tasks_file # <<>>

\* C13: for a function-call Response the turn returns the text of the follow-up
\* reply when that reply has text, and the result string of the execute step when
\* the follow-up is a function call or has no or empty text.
C13_SummaryOrRawResult ==
    (turn.pc \in {"append_model", "done"} /\ IsFunctionCall(turn.response[1])) =>
        LET follow_up == turn.follow_up[1]
        IN  /\ turn.follow_up # <<>>
            /\ follow_up.is_function_call => turn.final = turn.result
            /\ (~follow_up.is_function_call /\ follow_up.text \in {<<>>, << <<>> >>}) =>
                   turn.final = turn.result
            /\ (~follow_up.is_function_call /\ follow_up.text \notin {<<>>, << <<>> >>}) =>
                   turn.final = follow_up.text

\* the follow-up reply held no text and the turn returned the result string
C13_FellBackToResult ==
    /\ turn.pc = "done"
    /\ turn.follow_up # <<>>
    /\ turn.follow_up[1].text = << <<>> >>
    /\ turn.final = turn.result
    /\ turn.result # <<>>

\* C14: a Response with text and no function call bypasses the Dispatch Loop: no
\* Task Registry operation, no second gateway call, the task list unchanged and
\* the text returned unchanged; a Response with neither gives the fallback string.
C14_PlainTextBypassesDispatch ==
    [][(turn'.response # <<>> /\ ~turn'.response[1].is_function_call) =>
          /\ tasks_file' = tasks_file
          /\ IsPrefix(turn'.log, <<"append_user", "send", "append_model">>)
          /\ Len(turn'.sent) <= 1
          /\ contacts' <= 1
          /\ turn'.pc \in {"append_model", "done"} =>
                 turn'.final = IF turn'.response[1].text \in {<<>>, << <<>> >>}
                               THEN <<FallbackText>>
                               ELSE turn'.response[1].text]_vars

\* a turn ended on a text reply while a task was stored
C14_TextReturnedUnchanged ==
    /\ turn.pc = "done"
    /\ ~turn.response[1].is_function_call
    /\ turn.final = << <<"a">> >>
    /\ tasks_file # <<>>
    /\ contacts = 1

\* C15: a CLI turn and a web request send the same content turns to the gateway,
\* the stored history followed by the new message as the final user turn, and
\* leave the Conversation Buffer in the same state.
C15_FrontEndsSendStoredThenNew ==
    /\ turn.sent # <<>> =>
           turn.sent[1] = ConvertHistory(turn.stored)
                              \o <<[role |-> "user", text |-> turn.text]>>
    /\ turn.pc = "done" =>
           Messages(history) = turn.stored
                                   \o <<[role |-> "user", content |-> turn.text],
                                        [role |-> "model", content |-> turn.final[1]]>>


(* ---------------- concurrent add_task requests (POST /api/tasks) ---------------- *)
\* Flask serves each request on its own thread; add_task reads storage.json, builds
\* the new list and writes it back, with nothing held in between.
InitAdds ==
    /\ history = <<>>
    /\ hist_seq = 0
    /\ now = 0
    /\ legacy_json = <<>>
    /\ appended = <<>>
    /\ ret = NoRet
    /\ conn = [w \in Writers |-> Idle]
    /\ observed = NotObserved
    /\ tasks_file = <<>>
    /\ issued = <<>>
    /\ db_tasks = {}
    /\ task_seq = 0
    /\ client = FALSE
    /\ contacts = 0
    /\ turn = NoTurn
    /\ req = [w \in Writers |-> NoRequest]
    /\ gw = NoCall
    /\ stats = NoStats

\* add_task, lines 86-89: the name check, then tasks = load_tasks()
AddLoad(w) ==
    /\ req[w].pc \in {"idle", "returned"}
    /\ Len(issued) < MaxAdds
    /\ \E name \in Names :
         req' = [req EXCEPT ![w] =
                    IF NameIsEmpty(name)
                    THEN [NoRequest EXCEPT !.pc = "returned"]
                    ELSE [NoRequest EXCEPT !.pc = "loaded", !.tasks = tasks_file,
                                           !.task = <<Strip(name)>>]]
    /\ UNCHANGED <<bufVars, concVars, taskVars, client, contacts, turn, gw, stats>>

\* add_task, lines 91-101: new_task, tasks.append(new_task), save_tasks(tasks)
AddSave(w) ==
    /\ req[w].pc = "loaded"
    /\ \E written \in BOOLEAN :
         LET new_task == [id |-> get_next_id(req[w].tasks), name |-> req[w].task[1],
                          completed |-> FALSE]
         IN  /\ tasks_file' = save_tasks(Append(req[w].tasks, new_task), written)
             /\ issued' = IF written THEN Append(issued, new_task.id) ELSE issued
             /\ req' = [req EXCEPT ![w].pc = "returned",
                                   ![w].out = IF written THEN <<new_task>> ELSE <<>>]
    /\ UNCHANGED <<bufVars, concVars, db_tasks, task_seq, client, contacts, turn, gw, stats>>

\* a concurrent GET /api/tasks: list_tasks()
AddsListTasks ==
    /\ ret' = [NoRet EXCEPT !.op = "list_tasks", !.list = tasks_file]
    /\ UNCHANGED <<history, hist_seq, now, legacy_json, appended, concVars, taskVars,
                   frontVars>>

NextAdds ==
    \/ \E w \in Writers : AddLoad(w)
    \/ \E w \in Writers : AddSave(w)
    \/ AddsListTasks

SpecAdds == InitAdds /\ [][NextAdds]_vars

\* C19: under any interleaving of concurrent add_task calls, the identifiers
\* returned are distinct and every task added is in the task list afterwards.
C19_ConcurrentAddsKeepEveryTask ==
    /\ \A v, w \in Writers :
           (v # w /\ req[v].out # <<>> /\ req[w].out # <<>>) =>
               req[v].out[1].id # req[w].out[1].id
    /\ \A w \in Writers :
           req[w].out # <<>> => \E i \in 1..Len(tasks_file) : tasks_file[i] = req[w].out[1]

(* ---------------- concurrent toggle requests (POST /api/tasks/<id>/toggle) -------- *)
\* the task the requests toggle, as db_add_task left it
ToggledTask ==
    [id |-> 1, name |-> <<"a">>, completed |-> FALSE, created_at |-> 0,
     completed_at |-> Null]

InitToggle ==
    /\ history = <<>>
    /\ hist_seq = 0
    /\ now = 0
    /\ legacy_json = <<>>
    /\ appended = <<>>
    /\ ret = NoRet
    /\ conn = [w \in Writers |-> Idle]
    /\ observed = NotObserved
    /\ tasks_file = <<>>
    /\ issued = <<>>
    /\ db_tasks = {ToggledTask}
    /\ task_seq = 1
    /\ client = FALSE
    /\ contacts = 0
    /\ turn = NoTurn
    /\ req = [w \in Writers |-> NoRequest]
    /\ gw = NoCall
    /\ stats = NoStats

\* api_toggle_task, lines 192-194: task = db_get_task(task_id) on its own connection
ToggleRead(w) ==
    /\ req[w].pc \in {"idle", "returned"}
    /\ req[w].n < MaxToggles
    /\ \E id \in {ToggledTask.id, ToggledTask.id + 1} :
         LET task == FetchTask(db_tasks, id)
         IN  req' = [req EXCEPT ![w] =
                        IF task = <<>>
                        THEN [req[w] EXCEPT !.pc = "returned", !.task = <<>>, !.out = <<>>]
                        ELSE [req[w] EXCEPT !.pc = "read", !.task = task, !.out = <<>>]]
    /\ UNCHANGED <<bufVars, concVars, taskVars, client, contacts, turn, gw, stats>>

\* api_toggle_task, lines 197-204: new_status from the task read, UPDATE, commit
ToggleUpdate(w) ==
    /\ req[w].pc = "read"
    /\ db_tasks' = SetCompleted(db_tasks, req[w].task[1].id,
                                ~req[w].task[1].completed, now)
    /\ req' = [req EXCEPT ![w].pc = "updated"]
    /\ UNCHANGED <<bufVars, concVars, tasks_file, issued, task_seq, client, contacts,
                   turn, gw, stats>>

\* api_toggle_task, lines 207-218: SELECT the row again and return it
ToggleFetch(w) ==
    /\ req[w].pc = "updated"
    /\ req' = [req EXCEPT ![w].pc = "returned",
                          ![w].out = FetchTask(db_tasks, req[w].task[1].id),
                          ![w].n = req[w].n + 1]
    /\ UNCHANGED <<bufVars, concVars, taskVars, client, contacts, turn, gw, stats>>

TickToggle ==
    /\ now < MaxClock
    /\ now' = now + 1
    /\ UNCHANGED <<history, hist_seq, legacy_json, appended, ret, concVars, taskVars,
                   frontVars>>

NextToggle ==
    \/ \E w \in Writers : ToggleRead(w)
    \/ \E w \in Writers : ToggleUpdate(w)
    \/ \E w \in Writers : ToggleFetch(w)
    \/ TickToggle

SpecToggle == InitToggle /\ [][NextToggle]_vars

RECURSIVE TogglesMade(_)
TogglesMade(ws) ==
    IF ws = {} THEN 0
    ELSE LET w == CHOOSE v \in ws : TRUE
         IN  req[w].n + TogglesMade(ws \ {w})

\* C20: once the toggle requests have returned, the completed flag of the task
\* is its initial value after an even number of successful toggles and the
\* negation after an odd number, and the task a request returned is the state its
\* own update produced.
C20_EachToggleFlipsOnce ==
    /\ (\A w \in Writers : req[w].pc \in {"idle", "returned"}) =>
           \A r \in db_tasks :
               r.id = ToggledTask.id =>
                   r.completed = (IF TogglesMade(Writers) % 2 = 0
                                  THEN ToggledTask.completed
                                  ELSE ~ToggledTask.completed)
    /\ \A w \in Writers :
           (req[w].pc = "returned" /\ req[w].out # <<>>) =>
               req[w].out[1].completed = ~req[w].task[1].completed


(* ---------------- db_get_stats beside concurrent requests (GET /api/stats) -------- *)
\* db_get_stats runs three SELECT COUNT(*) statements on one connection without
\* opening a transaction: each statement reads the rows committed when it runs.
\* The other requests commit between them.

\* the counts of a state of the store
Counts(tasks, messages) ==
    [total_tasks |-> Cardinality(tasks),
     completed_tasks |-> Cardinality({r \in tasks : r.completed}),
     pending_tasks |-> Cardinality({r \in tasks : ~r.completed}),
     conversation_messages |-> Len(messages)]

\* the states seen by a call in progress, after another request committed
Seen(tasks, messages) ==
    IF stats.pc \in {"total", "completed"}
    THEN stats.seen \cup {Counts(tasks, messages)}
    ELSE stats.seen

InitStats ==
    /\ history = <<>>
    /\ hist_seq = 0
    /\ now = 0
    /\ legacy_json = <<>>
    /\ appended = <<>>
    /\ ret = NoRet
    /\ conn = [w \in Writers |-> Idle]
    /\ observed = NotObserved
    /\ tasks_file = <<>>
    /\ issued = <<>>
    /\ db_tasks = {}
    /\ task_seq = 0
    /\ client = FALSE
    /\ contacts = 0
    /\ turn = NoTurn
    /\ req = [w \in Writers |-> NoRequest]
    /\ gw = NoCall
    /\ stats = NoStats

\* db_get_stats, line 309: SELECT COUNT(*) FROM tasks
StatsCountTotal ==
    /\ stats.pc = "idle"
    /\ stats' = [NoStats EXCEPT !.pc = "total", !.total = Cardinality(db_tasks),
                                !.seen = {Counts(db_tasks, history)}]
    /\ UNCHANGED <<bufVars, concVars, taskVars, client, contacts, turn, req, gw>>

\* db_get_stats, line 310: SELECT COUNT(*) FROM tasks WHERE completed = 1
StatsCountCompleted ==
    /\ stats.pc = "total"
    /\ stats' = [stats EXCEPT !.pc = "completed",
                              !.completed = Cardinality({r \in db_tasks : r.completed})]
    /\ UNCHANGED <<bufVars, concVars, taskVars, client, contacts, turn, req, gw>>

\* db_get_stats, lines 311-321: pending = total - completed, SELECT COUNT(*) FROM
\* conversation_history, return
StatsReturn ==
    /\ stats.pc = "completed"
    /\ stats' = [stats EXCEPT !.pc = "returned",
                              !.out = <<[total_tasks |-> stats.total,
                                         completed_tasks |-> stats.completed,
                                         pending_tasks |-> stats.total - stats.completed,
                                         conversation_messages |-> Len(history)]>>]
    /\ ret' = [NoRet EXCEPT !.op = "db_get_stats"]
    /\ UNCHANGED <<history, hist_seq, now, legacy_json, appended, concVars, taskVars,
                   client, contacts, turn, req, gw>>

\* another request: db_add_task(name) with a name that is not empty
StatsAddTask ==
    /\ task_seq < MaxDbAdds
    /\ \E name \in {n \in Names : ~NameIsEmpty(n)} :
         /\ db_tasks' = db_tasks \cup
                {[id |-> task_seq + 1, name |-> Strip(name), completed |-> FALSE,
                  created_at |-> now, completed_at |-> Null]}
         /\ ret' = [NoRet EXCEPT !.op = "db_add_task", !.name = name,
                                 !.id = task_seq + 1]
    /\ task_seq' = task_seq + 1
    /\ stats' = [stats EXCEPT !.seen = Seen(db_tasks', history)]
    /\ UNCHANGED <<history, hist_seq, now, legacy_json, appended, concVars,
                   tasks_file, issued, client, contacts, turn, req, gw>>

\* another request: db_complete_task(task_id)
StatsCompleteTask ==
    /\ \E id \in 1..task_seq :
         /\ db_tasks' = SetCompleted(db_tasks, id, TRUE, now)
         /\ ret' = [NoRet EXCEPT !.op = "db_complete_task", !.id = id]
    /\ stats' = [stats EXCEPT !.seen = Seen(db_tasks', history)]
    /\ UNCHANGED <<history, hist_seq, now, legacy_json, appended, concVars,
                   tasks_file, issued, task_seq, client, contacts, turn, req, gw>>

\* another request: db_clear_completed_tasks()
StatsClearCompleted ==
    /\ db_tasks' = ClearCompleted(db_tasks)
    /\ ret' = [NoRet EXCEPT !.op = "db_clear_completed_tasks",
                            !.n = Cardinality(db_tasks \ db_tasks')]
    /\ stats' = [stats EXCEPT !.seen = Seen(db_tasks', history)]
    /\ UNCHANGED <<history, hist_seq, now, legacy_json, appended, concVars,
                   tasks_file, issued, task_seq, client, contacts, turn, req, gw>>

\* another request: append_message(role, content)
StatsAppendMessage ==
    /\ hist_seq < MaxConcAppends
    /\ \E tie \in TieOrders :
         history' = db_append_message(history, hist_seq, WriterRole("w1"),
                                      "m" \o ToString(hist_seq + 1), MAX_MESSAGES,
                                      now, tie)
    /\ hist_seq' = hist_seq + 1
    /\ appended' = Append(appended, [role |-> WriterRole("w1"),
                                     content |-> "m" \o ToString(hist_seq + 1)])
    /\ ret' = [NoRet EXCEPT !.op = "append_message"]
    /\ stats' = [stats EXCEPT !.seen = Seen(db_tasks, history')]
    /\ UNCHANGED <<now, legacy_json, concVars, taskVars, client, contacts, turn, req, gw>>

NextStats ==
    \/ StatsCountTotal
    \/ StatsCountCompleted
    \/ StatsReturn
    \/ StatsAddTask
    \/ StatsCompleteTask
    \/ StatsClearCompleted
    \/ StatsAppendMessage

SpecStats == InitStats /\ [][NextStats]_vars

StatKeys == {"total_tasks", "completed_tasks", "pending_tasks", "conversation_messages"}

\* C21: the dictionary db_get_stats returns has total_tasks = completed_tasks +
\* pending_tasks, no negative count, and every count is the count of a state the
\* store was in during the call, also with requests that add, complete or clear
\* tasks concurrently.
C21_StatsOfStatesDuringCall ==
    stats.pc = "returned" =>
        LET out == stats.out[1]
        IN  /\ out.total_tasks = out.completed_tasks + out.pending_tasks
            /\ \A k \in StatKeys : out[k] >= 0
            /\ \A k \in StatKeys : \E s \in stats.seen : s[k] = out[k]

====
